---- MODULE Spec2Model ----
(***************************************************************************)
(* Watercolor sketches (p5.js): the stroke layer (brush / Brush), the      *)
(* stroke bundle (strokes / Strokes) and paint().                          *)
(*                                                                         *)
(* Numbers.  JavaScript numbers are modelled as fixed-point values: the    *)
(* integer v stands for the real v / Unit.  Unit is a power of two large   *)
(* enough that every halving done by deform() is exact.                    *)
(*                                                                         *)
(* Randomness.  p5's random() is a pseudo-random generator whose seed is   *)
(* not known: rng is the generator's state, every call of random() reads   *)
(* it and advances it, and Init leaves the seed open.                      *)
(*                                                                         *)
(* Arrays.  A JavaScript array is an object that is passed by reference:   *)
(* arrays is the heap of vertex arrays, and a brush holds the index of     *)
(* its array in that heap.                                                 *)
(***************************************************************************)
EXTENDS Integers, Sequences, FiniteSets, TLC

VARIABLES
    variant,      \* which sketch runs: "sketch", "part000", "part001" or "part001b"
    rng,          \* state of p5's pseudo-random generator
    brushColor,   \* global brushColor: index into colors
    brushRadius,  \* global brushRadius
    arrays,       \* heap of vertex arrays: arrays[ref] is a sequence of points
    b,            \* the seed brush (paint: new brush([[x, y]])), or None
    layers,       \* strokes.layers: sequence of brushes
    total,        \* strokes.total (fixed-point), or 0 when no bundle exists
    pc,           \* position of the running handler: "idle", "deform", "show"
    round,        \* rounds of strokes deformation completed in this paint
    rounds,       \* rounds this paint applies
    layer,        \* index of the next layer the deform loop visits (0-based)
    canvas,       \* fills rendered on the canvas since the last reset
    passed,       \* history: passed[ref] = the array as it was handed to the constructor
    calls,        \* history: calls[ref] = number of deform() calls on the brush holding ref
    last,         \* history: the last deform() call, or None
    resets,       \* history: canvas resets so far
    mouse,        \* mouseX, mouseY (p5.js), in pixels
    lastMouse,    \* global lastMouse
    lastWrist,    \* globals lastLeft and lastRight (sketch.js)
    tracking,     \* global tracking
    listening,    \* global listening
    poseNet,      \* TRUE once the global poseNet holds the pose model
    audioAnalyser,\* TRUE once the global audioAnalyser holds the analyser node
    captures,     \* createCapture() calls whose ready callback has not run yet
    requests,     \* getUserMedia() calls that are not answered yet
    poses,        \* global poses: the last result of the pose model
    todo,         \* the calls of paint the running draw() still makes, in order
    ticks,        \* history: calls of draw() so far
    events,       \* history: pointer, button and model events so far
    saves,        \* history: positions saveMouse stored since the last pointer paint
    frame,        \* history: what the last draw() read, and what acf2plus returned
    created,      \* history: calls of ml5.poseNet() so far
    pressed,      \* history: the last two presses of the size buttons
    counter       \* global counter (second sketch of part_001)

\* The state of the paint pipeline, and the state of the session around it.
session == <<mouse, lastMouse, lastWrist, tracking, listening, poseNet,
             audioAnalyser, captures, requests, poses, todo, ticks, events,
             saves, frame,
             created,
             pressed,
             counter>>

vars == <<variant, rng, brushColor, brushRadius, arrays, b, layers, total,
          pc, round, rounds, layer, canvas, passed, calls, last, resets,
          session>>

None == [none |-> TRUE]

(***************************************************************************)
(* Bounds of the model.                                                    *)
(***************************************************************************)
FracBits == 12          \* fixed-point resolution: Unit = 2^FracBits
GrainBits == 4          \* random() returns one of 2^GrainBits fractions
RngModulus == 16        \* number of states of the generator
MaxLen == 3             \* longest vertex list handed to a brush under test
MaxCalls == 3           \* deform() calls on a brush under test
MaxResets == 1          \* canvas resets while a brush is under test
MaxTicks == 2           \* calls of draw()
MaxEvents == 3          \* pointer, button and model events
MaxSeeds == 2           \* generator seeds the session is followed from
MaxBuf == 3             \* longest buffer handed to acf2plus
SampleScale == 64       \* sample resolution: a sample is k / SampleScale

Unit == 2 ^ FracBits
Grain == 2 ^ GrainBits

\* The sketches with the palette of notes or the tracking switch; the
\* second sketch of part_001 ("part001b") is followed on its own.
Variants == {"sketch", "part000", "part001"}

(***************************************************************************)
(* p5 helpers.                                                             *)
(***************************************************************************)
\* The generator's step (an additive congruential generator), and the
\* fraction f / Grain in [0, 1) a state stands for.
step(s) == (s + RngModulus \div 2 - 1) % RngModulus
frac(s) == (s * Grain) \div RngModulus

\* State of the generator after k calls of random().
Advance(s, k) == (s + k * (RngModulus \div 2 - 1)) % RngModulus

\* The fractions the next k calls of random() return, in call order.
Draws(s, k) == <<>> \o [i \in 1..k |-> frac(Advance(s, i - 1))]

\* random(min, max): min + fraction * (max - min), a value in [min, max).
random(f, min, max) == min * Unit + (f * (max - min) * Unit) \div Grain

\* round(x): nearest integer, halves up.  ceil(x) for x >= 0.
Round(v) == (v + Unit \div 2) \div Unit
Ceil(v) == (v + Unit - 1) \div Unit

\* Number of entries of the palette colors.
NumColors(vr) ==
    CASE vr = "sketch" -> 12 [] vr = "part000" -> 12 [] vr = "part001" -> 14
      [] vr = "part001b" -> 10

\* random(colors): the index floor(random(0, colors.length)).
randomColor(f, vr) == random(f, 0, NumColors(vr)) \div Unit

\* Initial value of brushRadius.
InitialRadius(vr) ==
    CASE vr = "sketch" -> 30 [] vr = "part000" -> 32 [] vr = "part001" -> 32
      [] vr = "part001b" -> 50

(***************************************************************************)
(* brush / Brush: one paint layer.                                         *)
(***************************************************************************)
\* Variation: the random alpha is drawn as random(2).
BrushAlphaFromZero(vr, f) == IF vr = "part001" THEN Round(random(f, 0, 2)) ELSE 2

\* Alpha the constructor sets: setAlpha(2), or setAlpha(round(random(1, 2))).
BrushAlpha(vr, f) == IF vr = "part001" THEN Round(random(f, 1, 2)) ELSE 2

\* Number of random() calls the constructor makes.
BrushDraws(vr) == IF vr = "part001" THEN 1 ELSE 0

\* constructor(v): v is a reference to the caller's array; the colour is a
\* new p5.Color made from the global brushColor.
Brush(v, vr, col, f) ==
    [vertices |-> v, newVertices |-> <<>>,
     color |-> [name |-> col, alpha |-> BrushAlpha(vr, f)]]

\* Variation: the sum of p and q is not halved.
NewVertexSum(p, q, fx, fy, r) ==
    << p[1] + q[1] + random(fx, -r, r), p[2] + q[2] + random(fy, -r, r) >>

\* Variation: the offsets are drawn from twice the radius, random(-2r, 2r).
NewVertexWide(p, q, fx, fy, r) ==
    << (p[1] + q[1]) \div 2 + random(fx, -2 * r, 2 * r),
       (p[2] + q[2]) \div 2 + random(fy, -2 * r, 2 * r) >>

\* One new vertex: the average of p and q moved by random(-r, r) in x and in y.
NewVertex(p, q, fx, fy, r) ==
    << (p[1] + q[1]) \div 2 + random(fx, -r, r),
       (p[2] + q[2]) \div 2 + random(fy, -r, r) >>

\* First loop of deform(): for i = 0 .. length - 2 the vertex made from
\* vertices[i] and vertices[i + 1] is pushed on newVertices (entry i + 1 of
\* the sequence); ds are the fractions of the random() calls in call order.
PairVertices(vs, ds, r) ==
    <<>> \o [i \in 1..(Len(vs) - 1) |->
               NewVertex(vs[i], vs[i + 1], ds[2 * i - 1], ds[2 * i], r)]

\* Variation: the vertex made from the first and the last vertex is left out.
NewVerticesNoWrap(vs, ds, r) == PairVertices(vs, ds, r)

\* newVertices once the vertex made from the first and the last vertex is
\* pushed as well.
NewVertices(vs, ds, r) ==
    PairVertices(vs, ds, r)
    \o << NewVertex(vs[1], vs[Len(vs)], ds[2 * Len(vs) - 1], ds[2 * Len(vs)], r) >>

\* Variation: the new vertex is pushed at the end of vertices.
splicePush(vs, p) == vs \o <<p>>

\* Variation: vertices.splice(0, 0, p), the new vertex comes first.
spliceFront(vs, p) == <<p>> \o vs

\* vertices.splice(1, 0, p)
splice(vs, p) == SubSeq(vs, 1, 1) \o <<p>> \o SubSeq(vs, 2, Len(vs))

\* Second loop of deform(): the iterations i = lo .. hi - 1 of
\* vertices.splice(1, 0, newVertices[i]), run in that order.  The range is
\* halved to keep the evaluation shallow; the test on done has the first
\* half evaluated before the second half starts (vertices is never empty).
RECURSIVE SpliceAll(_, _, _, _)
SpliceAll(vs, nv, lo, hi) ==
    IF hi <= lo THEN vs
    ELSE IF hi = lo + 1 THEN splice(vs, nv[lo + 1])
    ELSE LET mid  == (lo + hi) \div 2
             done == SpliceAll(vs, nv, lo, mid)
         IN  IF done = <<>> THEN done ELSE SpliceAll(done, nv, mid, hi)

\* The vertex array after deform().
DeformVertices(vs, ds, r) ==
    LET nv == NewVertices(vs, ds, r) IN SpliceAll(vs, nv, 0, Len(nv))

\* Variation: deform() makes the colour anew from the global brushColor.
DeformBrushRecolor(br) == [br EXCEPT !.newVertices = <<>>, !.color.name = brushColor]

\* The brush object after deform(): newVertices is emptied again.
DeformBrush(br) == [br EXCEPT !.newVertices = <<>>]

\* deform() on brush br: 2 * length calls of random(), the array the brush
\* refers to is changed in place.
deform(br) ==
    LET vs == arrays[br.vertices]
        ds == Draws(rng, 2 * Len(vs))
    IN  /\ arrays' = [arrays EXCEPT ![br.vertices] = DeformVertices(vs, ds, brushRadius)]
        /\ rng' = Advance(rng, 2 * Len(vs))
        /\ calls' = [calls EXCEPT ![br.vertices] = @ + 1]
        /\ last' = [ref |-> br.vertices, pre |-> vs, draws |-> ds,
                    newVertices |-> NewVertices(vs, ds, brushRadius),
                    radius |-> brushRadius]

\* display() / show(): the fill the brush puts on the canvas.
display(br) == [name |-> br.color.name, alpha |-> br.color.alpha]

(***************************************************************************)
(* strokes / Strokes: the bundle of layers.                                *)
(***************************************************************************)
\* Variation: the lower end of the range is left out, random(30) or random(32).
StrokesTotalNoMin(vr, f) ==
    CASE vr = "sketch" -> 25 * Unit
      [] vr = "part000" -> random(f, 0, 30)
      [] vr = "part001" -> random(f, 0, 32)
      [] vr = "part001b" -> random(f, 0, 30)

\* this.total: 25, random(10, 30) or random(8, 32).
StrokesTotal(vr, f) ==
    CASE vr = "sketch" -> 25 * Unit
      [] vr = "part000" -> random(f, 10, 30)
      [] vr = "part001" -> random(f, 8, 32)
      [] vr = "part001b" -> random(f, 10, 30)

\* Number of random() calls that set this.total.
TotalDraws(vr) == IF vr = "sketch" THEN 0 ELSE 1

\* Number of iterations of for(let i = from; i < this.total; i++), plus from.
RECURSIVE LoopCount(_, _)
LoopCount(tot, from) == IF from * Unit < tot THEN LoopCount(tot, from + 1) ELSE from

\* Variation: every layer is built on the seed brush's own array,
\* new brush(brushObject.vertices).
LayerRefShared(seed, heap, i) == seed.vertices

\* The array the constructor hands to layer i: a new array (the next free
\* reference of the heap) filled with the entries of the seed brush's array.
LayerRef(seed, heap, i) == Len(heap) + i

\* constructor(brushObject): total is drawn, then every layer is built on
\* its own copy of the seed brush's vertices, with its own constructor
\* call.  s is the generator's state when the constructor starts.
StrokesNew(seed, heap, vr, col, s) ==
    LET tot == StrokesTotal(vr, frac(s))
        s1  == Advance(s, TotalDraws(vr))
        n   == LoopCount(tot, 0)
    IN  [total  |-> tot,
         layers |-> <<>> \o [i \in 1..n |->
                       Brush(LayerRef(seed, heap, i), vr, col,
                             frac(Advance(s1, (i - 1) * BrushDraws(vr))))],
         arrays |-> heap \o [i \in 1..n |-> heap[seed.vertices]],
         rng    |-> Advance(s1, n * BrushDraws(vr))]

\* Rounds one paint applies: paint's loop of 5 calls of strokes.deform(), or
\* the loop for(let i = random(8); i > 0; i--) inside Strokes.deform().
PaintRounds(vr, f) == IF vr = "part001" THEN Ceil(random(f, 0, 8)) ELSE 5

(***************************************************************************)
(* State after setup(): canvasReset() has drawn the first brush colour.    *)
(* sketch.js and the second sketch of part_001 make the pose model in      *)
(* setup() and have no switch for it: their draw() consults poses in every *)
(* frame, which tracking = TRUE stands for.                                *)
(***************************************************************************)
Setup(vr) ==
    /\ variant = vr
    /\ \E seed \in 0..(RngModulus - 1) :
          /\ brushColor = randomColor(frac(seed), variant)
          /\ rng = step(seed)
    /\ brushRadius = InitialRadius(variant)
    /\ arrays = <<>>
    /\ b = None
    /\ layers = <<>>
    /\ total = 0
    /\ pc = "idle"
    /\ round = 0
    /\ rounds = 0
    /\ layer = 0
    /\ canvas = {}
    /\ passed = <<>>
    /\ calls = <<>>
    /\ last = None
    /\ resets = 0
    /\ mouse = <<0, 0>>
    /\ lastMouse = <<0, 0>>
    /\ lastWrist = [left |-> <<0, 0>>, right |-> <<0, 0>>]
    /\ tracking = (variant \in {"sketch", "part001b"})
    /\ listening = FALSE
    /\ poseNet = (variant \in {"sketch", "part001b"})
    /\ created = IF variant \in {"sketch", "part001b"} THEN 1 ELSE 0
    /\ counter = 0
    /\ pressed = <<>>
    /\ audioAnalyser = FALSE
    /\ captures = 0
    /\ requests = 0
    /\ poses = <<>>
    /\ todo = <<>>
    /\ ticks = 0
    /\ events = 0
    /\ saves = 0
    /\ frame = [tick |-> 0, tracking |-> FALSE, poses |-> <<>>, pitch |-> FALSE,
                buffer |-> <<>>, frequency |-> [kind |-> "false", value |-> 0],
                recolors |-> 0]

Init == \E vr \in Variants : Setup(vr)

\* canvasReset() / canvasClean(): clear the canvas, draw a new brush colour.
CanvasReset ==
    /\ pc = "idle"
    /\ canvas' = {}
    /\ brushColor' = randomColor(frac(rng), variant)
    /\ rng' = step(rng)
    /\ UNCHANGED <<variant, brushRadius, arrays, b, layers, total, pc, round,
                   rounds, layer, passed, calls, last>>

(***************************************************************************)
(* paint(x, y), in steps: the constructors, one layer's deform() at a      *)
(* time, then the display of the bundle.  No other handler runs while      *)
(* paint does (pc # "idle").                                               *)
(***************************************************************************)
\* Points paint is called with.
Anchors == { <<100 * Unit, 100 * Unit>> }

\* let w = new strokes(new brush([ [x, y] ])), t = random(1, 5); and the
\* start of the deformation loop.
PaintBegin(p) ==
    /\ pc = "idle"
    /\ LET seed == Brush(1, variant, brushColor, frac(rng))
           s1   == Advance(rng, BrushDraws(variant))
           w    == StrokesNew(seed, << <<p>> >>, variant, brushColor, s1)
           k    == PaintRounds(variant, frac(w.rng))
       IN  /\ b' = seed
           /\ layers' = w.layers
           /\ total' = w.total
           /\ arrays' = w.arrays
           /\ passed' = w.arrays
           /\ calls' = <<>> \o [i \in 1..Len(w.arrays) |-> 0]
           /\ rng' = step(w.rng)
           /\ rounds' = k
           /\ pc' = IF k > 0 THEN "deform" ELSE "show"
    /\ round' = 0
    /\ layer' = 0
    /\ last' = None
    /\ UNCHANGED <<variant, brushColor, brushRadius, canvas, resets>>

\* Variation: the loop over the layers stops one layer early,
\* i < this.total - 1.
DeformStepShort ==
    /\ pc = "deform"
    /\ deform(layers[layer + 1])
    /\ layers' = [layers EXCEPT ![layer + 1] = DeformBrush(@)]
    /\ IF (layer + 2) * Unit < total
       THEN /\ layer' = layer + 1
            /\ UNCHANGED <<round, pc>>
       ELSE /\ layer' = 0
            /\ round' = round + 1
            /\ pc' = IF round + 1 < rounds THEN "deform" ELSE "show"
    /\ UNCHANGED <<variant, brushColor, brushRadius, b, total, rounds, canvas,
                   passed, resets>>

\* this.layers[i].deform() inside strokes.deform(), for the current i; the
\* loops' counters move on.
DeformStep ==
    /\ pc = "deform"
    /\ deform(layers[layer + 1])
    /\ layers' = [layers EXCEPT ![layer + 1] = DeformBrush(@)]
    /\ IF (layer + 1) * Unit < total
       THEN /\ layer' = layer + 1
            /\ UNCHANGED <<round, pc>>
       ELSE /\ layer' = 0
            /\ round' = round + 1
            /\ pc' = IF round + 1 < rounds THEN "deform" ELSE "show"
    /\ UNCHANGED <<variant, brushColor, brushRadius, b, total, rounds, canvas,
                   passed, resets>>

\* Variation: the display clears what the canvas held, as clear() does.
ShowCleared ==
    /\ pc = "show"
    /\ canvas' = { display(layers[i]) : i \in 1..LoopCount(total, 0) }
    /\ pc' = "idle"
    /\ arrays' = <<>>
    /\ b' = None
    /\ layers' = <<>>
    /\ total' = 0
    /\ round' = 0
    /\ rounds' = 0
    /\ layer' = 0
    /\ passed' = <<>>
    /\ calls' = <<>>
    /\ last' = None
    /\ UNCHANGED <<variant, rng, brushColor, brushRadius, resets>>

\* strokes.display(): every layer is drawn; paint returns and the bundle is
\* dropped.
Show ==
    /\ pc = "show"
    /\ canvas' = canvas \cup { display(layers[i]) : i \in 1..LoopCount(total, 0) }
    /\ pc' = "idle"
    /\ arrays' = <<>>
    /\ b' = None
    /\ layers' = <<>>
    /\ total' = 0
    /\ round' = 0
    /\ rounds' = 0
    /\ layer' = 0
    /\ passed' = <<>>
    /\ calls' = <<>>
    /\ last' = None
    /\ UNCHANGED <<variant, rng, brushColor, brushRadius, resets>>

Paint == \E p \in Anchors : PaintBegin(p)

Next ==
    \/ Paint /\ UNCHANGED session
    \/ DeformStep /\ UNCHANGED session
    \/ Show /\ UNCHANGED session
    \/ CanvasReset /\ UNCHANGED <<resets, session>>

Spec == Init /\ [][Next]_vars

(***************************************************************************)
(* A single brush, used as the classes allow: a caller hands an array of   *)
(* one or more vertices to the constructor, then calls deform() and        *)
(* display() on the brush, while the canvas may be reset in between.       *)
(***************************************************************************)
\* Vertex lists a caller hands to the constructor: n distinct points
\* starting at p.
InputVertices(p, n) ==
    <<>> \o [i \in 1..n |->
               << p[1] + (i - 1) * 40 * Unit, p[2] + ((i * i) % 3) * 30 * Unit >>]

BrushAnchors == { <<100 * Unit, 100 * Unit>>, <<0, 240 * Unit>> }

\* new brush(v), v being the caller's array (reference 1 of the heap).
BrushNew(vs) ==
    /\ pc = "idle"
    /\ b = None
    /\ arrays' = <<vs>>
    /\ passed' = <<vs>>
    /\ calls' = <<0>>
    /\ b' = Brush(1, variant, brushColor, frac(rng))
    /\ rng' = Advance(rng, BrushDraws(variant))
    /\ UNCHANGED <<variant, brushColor, brushRadius, layers, total, pc, round,
                   rounds, layer, canvas, last, resets>>

\* b.deform()
BrushDeform ==
    /\ b # None
    /\ calls[b.vertices] < MaxCalls
    /\ deform(b)
    /\ b' = DeformBrush(b)
    /\ UNCHANGED <<variant, brushColor, brushRadius, layers, total, pc, round,
                   rounds, layer, canvas, passed, resets>>

\* b.display()
BrushDisplay ==
    /\ b # None
    /\ canvas' = canvas \cup { display(b) }
    /\ UNCHANGED <<variant, rng, brushColor, brushRadius, arrays, b, layers,
                   total, pc, round, rounds, layer, passed, calls, last, resets>>

\* canvasReset() while the brush exists.
BrushReset ==
    /\ resets < MaxResets
    /\ CanvasReset
    /\ resets' = resets + 1

NextBrush ==
    \/ \E p \in BrushAnchors, n \in 1..MaxLen :
          BrushNew(InputVertices(p, n)) /\ UNCHANGED session
    \/ BrushDeform /\ UNCHANGED session
    \/ BrushDisplay /\ UNCHANGED session
    \/ BrushReset /\ UNCHANGED session

SpecBrush == Init /\ [][NextBrush]_vars

(***************************************************************************)
(* The session: pointer, palette, pose tracking and pitch detection around *)
(* paint().  Handlers run one at a time: no event handler and no callback  *)
(* runs while draw() and its calls of paint() run.                         *)
(***************************************************************************)
\* window.innerWidth and window.innerHeight, in pixels.
InnerWidth == 1092
InnerHeight == 600

\* spacing: the width of a palette swatch.
Spacing(vr) ==
    IF vr = "sketch" THEN InnerWidth \div (NumColors(vr) + 1)
    ELSE InnerWidth \div NumColors(vr)

\* width and height of the canvas made by createCanvas().
Width(vr) == IF vr = "sketch" THEN InnerWidth ELSE InnerWidth - 50
Height(vr) == IF vr = "sketch" THEN InnerHeight - Spacing(vr) ELSE InnerHeight - 50

\* saveMouse(): lastMouse afterwards, m being (mouseX, mouseY).
saveMouse(vr, m, lm) ==
    IF m[1] <= Width(vr) /\ m[2] <= Height(vr) THEN m ELSE lm

\* colors[i] for an i that is no index of colors: undefined.
UndefinedColor == -1

\* Variation: the loop over the swatches runs to i <= colors.length.
SwatchesOneMore(vr, m) ==
    { i \in 0..NumColors(vr) :
        IF vr = "sketch"
        THEN /\ m[1] > i * Spacing(vr) /\ m[1] < i * Spacing(vr) + Spacing(vr)
             /\ m[2] > InnerHeight - Spacing(vr) /\ m[2] < InnerHeight
        ELSE /\ m[1] > i * Spacing(vr) /\ m[1] <= i * Spacing(vr) + Spacing(vr) }

\* The indices i for which the test of the palette loop of draw() holds.
Swatches(vr, m) ==
    { i \in 0..(NumColors(vr) - 1) :
        IF vr = "sketch"
        THEN /\ m[1] > i * Spacing(vr) /\ m[1] < i * Spacing(vr) + Spacing(vr)
             /\ m[2] > InnerHeight - Spacing(vr) /\ m[2] < InnerHeight
        ELSE /\ m[1] > i * Spacing(vr) /\ m[1] <= i * Spacing(vr) + Spacing(vr) }

\* colors[i], undefined beyond the entries of colors.
ColorAt(vr, i) == IF i \in 0..(NumColors(vr) - 1) THEN i ELSE UndefinedColor

\* brushColor after the palette loop: the swatch under the pointer, if any
\* (at most one swatch passes the test).
PaletteColor(vr, m, col) ==
    LET hit == Swatches(vr, m)
    IN  IF hit = {} THEN col ELSE ColorAt(vr, CHOOSE i \in hit : TRUE)

\* if(mouseY >= height && mouseY <= window.innerHeight): the pointer is in
\* the palette row (sketch.js has no such test around its palette loop).
OverPalette(vr, m) == vr = "sketch" \/ (m[2] >= Height(vr) /\ m[2] <= InnerHeight)

\* else if(listening && mouseY < height): draw() calls acf2plus.
PitchApplies(vr, m, lis) == vr # "sketch" /\ ~ OverPalette(vr, m) /\ lis /\ m[2] < Height(vr)

(***************************************************************************)
(* acf2plus(buffer).  A sample is the integer k that stands for the number *)
(* k / SampleScale; a value of the autocorrelation is the integer that     *)
(* stands for that integer / SampleScale^2.  An array read past the ends   *)
(* gives undefined, arithmetic on undefined gives NaN, and a comparison    *)
(* with NaN is false.                                                      *)
(***************************************************************************)
\* audio.sampleRate
SampleRate == 44100

\* Values acf2plus returns: false, a number, or Infinity.
NoSignal == [kind |-> "false", value |-> 0]
Infinity == [kind |-> "infinity", value |-> 0]
Number(v) == [kind |-> "number", value |-> v]

\* if(frequency): false, 0 and NaN are not a frequency.
Truthy(f) == f.kind = "infinity" \/ (f.kind = "number" /\ f.value # 0)

RECURSIVE SeqSum(_)
SeqSum(s) == IF s = <<>> THEN 0 ELSE Head(s) + SeqSum(Tail(s))

Abs(k) == IF k < 0 THEN -k ELSE k
Min(S) == CHOOSE x \in S : \A y \in S : x <= y
Max(S) == CHOOSE x \in S : \A y \in S : x >= y

\* Variation: the signal counts as too quiet only when rms is 0.
TooQuietZero(buf) ==
    /\ Len(buf) > 0
    /\ SeqSum(<<>> \o [i \in 1..Len(buf) |-> buf[i] * buf[i]]) = 0

\* rms < 0.01, rms being sqrt(sum of squares / length): sum / length <
\* 1 / 10000.  For an empty buffer rms is NaN and the test is false.
TooQuiet(buf) ==
    /\ Len(buf) > 0
    /\ 10000 * SeqSum(<<>> \o [i \in 1..Len(buf) |-> buf[i] * buf[i]])
          < SampleScale * SampleScale * Len(buf)

\* Math.abs(buffer[j]) < 0.2, for the index j of the code (from 0).
NearZero(buf, j) == j \in 0..(Len(buf) - 1) /\ 5 * Abs(buf[j + 1]) < SampleScale

\* The values of i the trimming loop runs through: i < buffer.length / 2.
TrimRange(buf) == 0..((Len(buf) + 1) \div 2 - 1)

\* r1 and r2 after the trimming loop.
TrimStart(buf) ==
    LET found == { i \in TrimRange(buf) : NearZero(buf, i) }
    IN  IF found = {} THEN 0 ELSE Min(found)
TrimEnd(buf) ==
    LET found == { i \in TrimRange(buf) : NearZero(buf, Len(buf) - i) }
    IN  IF found = {} THEN Len(buf) - 1 ELSE Len(buf) - Min(found)

\* buffer.slice(r1, r2)
Trim(buf) == SubSeq(buf, TrimStart(buf) + 1, TrimEnd(buf))

\* c: the autocorrelation of the trimmed buffer t, c[i] at entry i + 1.
Autocorrelation(t) ==
    <<>> \o [i \in 1..Len(t) |->
               SeqSum(<<>> \o [j \in 1..(Len(t) - i + 1) |-> t[j] * t[j + i - 1]])]

\* while(c[d] > c[d + 1]) d++, from d on.
RECURSIVE FirstDip(_, _)
FirstDip(c, d) ==
    IF d + 1 <= Len(c) - 1 /\ c[d + 1] > c[d + 2] THEN FirstDip(c, d + 1) ELSE d

\* maxPos after the search from d on: the first index of the largest value,
\* or -1 when no value is above the initial maxVal = -1.
MaxPos(c, d) ==
    LET above == { i \in d..(Len(c) - 1) : c[i + 1] > - SampleScale * SampleScale }
        tops  == { i \in above : \A j \in above : c[j + 1] <= c[i + 1] }
    IN  IF above = {} THEN -1 ELSE Min(tops)

\* round(s * d / n) for n # 0, computed in two steps to keep the products
\* small: s = 100 * h + l.
RoundQuotient(s, d, n) ==
    LET sg == IF n < 0 THEN -1 ELSE 1
        x  == 2 * d * sg
        y  == 2 * n * sg
        h  == s \div 100
        l  == s % 100
        q  == (h * x) \div y
        r  == (h * x) % y
    IN  100 * q + (100 * r + l * x + n * sg) \div y

\* The interpolation and the result: a = a2 / 2 and b = b2 / 2 are NaN when
\* a neighbour of the peak is undefined, and if(a) then skips the
\* correction; maxPos - b / (2 * a) is (2 * a2 * maxPos - b2) / (2 * a2).
Pitch(c, pos) ==
    LET in(i) == i \in 0..(Len(c) - 1)
    IN  IF in(pos - 1) /\ in(pos) /\ in(pos + 1)
                /\ c[pos] + c[pos + 2] - 2 * c[pos + 1] # 0
        THEN LET a2 == c[pos] + c[pos + 2] - 2 * c[pos + 1]
                 b2 == c[pos + 2] - c[pos]
                 n  == 2 * a2 * pos - b2
             IN  IF n = 0 THEN Infinity
                 ELSE Number(RoundQuotient(SampleRate, 2 * a2, n))
        ELSE IF pos = 0 THEN Infinity
        ELSE Number(RoundQuotient(SampleRate, 1, pos))

\* acf2plus(buffer)
acf2plus(buf) ==
    IF TooQuiet(buf) THEN NoSignal
    ELSE LET c == Autocorrelation(Trim(buf))
         IN  Pitch(c, MaxPos(c, FirstDip(c, 0)))

(***************************************************************************)
(* The note of a frequency and the colour draw() takes for it.             *)
(***************************************************************************)
\* The least whole numbers not below 440 * 2^((i - 1/2) / 12) * 2^21, for
\* i = 0 .. 12: the frequencies, scaled, at which round(12 * log2(f / 440))
\* steps from i - 1 to i.
SemitoneSteps ==
    << 896478068, 949785428, 1006262608, 1066098097, 1129491589, 1196654653,
       1267811442, 1343199433, 1423070228, 1507690387, 1597342323, 1692325240,
       1792956136 >>

\* f doubled until it reaches the first step, and the number of doublings.
RECURSIVE Doubled(_, _)
Doubled(f, m) ==
    IF f >= SemitoneSteps[1] THEN [f |-> f, m |-> m] ELSE Doubled(2 * f, m + 1)

\* round(12 * (Math.log(f / 440) / Math.log(2))) for a whole f > 0.
Semitones(f) ==
    LET s == Doubled(f, 0)
    IN  12 * (21 - s.m) + Max({ i \in 0..11 : SemitoneSteps[i + 1] <= s.f })

\* a % 12 of JavaScript: the sign of a.
Remainder12(a) == IF a >= 0 THEN a % 12 ELSE - ((- a) % 12)

\* notes, the table of part_001.
notes == << 4, 5, 6, 7, 8, 9, 10, 11, 0, 1, 2, 3 >>

\* NaN, as a value of note.
NaN == [kind |-> "nan", value |-> 0]

\* note = (round(12 * (Math.log(frequency / 440) / Math.log(2))) + 69) % 12
\* for a truthy frequency f: NaN when f is Infinity (Infinity % 12) or
\* negative (the logarithm of a negative number).
Note(f) ==
    IF f.kind = "number" /\ f.value > 0
    THEN Number(Remainder12(Semitones(f.value) + 69))
    ELSE NaN

\* colors[note] (part_000) or colors[notes[constrain(note, 0, notes.length)]]
\* (part_001) for the note of frequency f: constrain(NaN, ...) is NaN, and
\* the colour at NaN is undefined.
NoteColor(vr, f) ==
    LET note == Note(f)
    IN  IF note.kind = "number"
        THEN IF vr = "part001"
             THEN LET k == IF note.value < 0 THEN 0
                           ELSE IF note.value > Len(notes) THEN Len(notes)
                           ELSE note.value
                  IN  IF k + 1 \in DOMAIN notes THEN ColorAt(vr, notes[k + 1])
                      ELSE UndefinedColor
             ELSE ColorAt(vr, note.value)
        ELSE UndefinedColor

(***************************************************************************)
(* Poses.  A confidence is in hundredths: 60 stands for 0.60.              *)
(***************************************************************************)
\* trackingConfidence of part_001, the literal 0.60 of the other sketches.
TrackingConfidence == 60

\* trackingBodyParts: no sketch ever assigns its entries.
trackingBodyParts ==
    [leftWrist |-> TRUE, rightWrist |-> TRUE, leftAnkle |-> TRUE, rightAngle |-> TRUE]

\* A keypoint of a pose.
Limb(x, y, c) == [x |-> x, y |-> y, confidence |-> c]

\* Results the pose model hands to its callback.
PoseA ==
    [leftWrist |-> Limb(200, 150, 61), rightWrist |-> Limb(400, 150, 60),
     leftAnkle |-> Limb(250, 400, 90), rightAnkle |-> Limb(450, 400, 30)]
PoseB ==
    [leftWrist |-> Limb(200, 300, 10), rightWrist |-> Limb(500, 300, 95),
     leftAnkle |-> Limb(260, 420, 0), rightAnkle |-> Limb(460, 420, 59)]
PoseC ==
    [leftWrist |-> Limb(230, 150, 80), rightWrist |-> Limb(400, 320, 70),
     leftAnkle |-> Limb(250, 400, 20), rightAnkle |-> Limb(450, 400, 40)]
PoseResults == { <<>>, <<PoseA>>, <<PoseB, PoseA>>, <<PoseC>> }

\* One call of paint that draw() makes: the point, what it comes from
\* ("mouse" or the name of a limb), the index of the pose, and whether the
\* call has returned.
PaintAt(src, i, x, y) == [p |-> <<x, y>>, src |-> src, pose |-> i, painted |-> FALSE]

\* Variation: a limb is painted from the threshold on, confidence >= 0.60.
LimbFoundFrom(on, limb) == on /\ limb.confidence >= TrackingConfidence

\* trackingBodyParts.<part> && <limb>.confidence > 0.60
LimbFound(on, limb) == on /\ limb.confidence > TrackingConfidence

\* The paints of pose i of ps, in the order of the four tests of draw().
PosePaints(ps, i) ==
    LET one(src, on, limb) ==
            IF LimbFound(on, limb) THEN << PaintAt(src, i, limb.x, limb.y) >> ELSE <<>>
    IN  one("leftWrist", trackingBodyParts.leftWrist, ps[i].leftWrist)
        \o one("rightWrist", trackingBodyParts.rightWrist, ps[i].rightWrist)
        \o one("leftAnkle", trackingBodyParts.leftAnkle, ps[i].leftAnkle)
        \o one("rightAnkle", trackingBodyParts.rightAngle, ps[i].rightAnkle)

\* for(let i = 0; i < poses.length; i += 1), from pose i on.
RECURSIVE AllPosePaints(_, _)
AllPosePaints(ps, i) ==
    IF i > Len(ps) THEN <<>> ELSE PosePaints(ps, i) \o AllPosePaints(ps, i + 1)

\* sketch.js: lastLeft.x != leftWrist.x && lastLeft.y != leftWrist.y
WristMoved(saved, limb) == saved[1] # limb.x /\ saved[2] # limb.y

\* sketch.js: a wrist of the first pose is painted when it is found and
\* differs from the saved position of that wrist.
WristPainted(saved, limb) == LimbFound(TRUE, limb) /\ WristMoved(saved, limb)

WristPaints(ps, lw) ==
    (IF WristPainted(lw.left, ps[1].leftWrist)
     THEN << PaintAt("leftWrist", 1, ps[1].leftWrist.x, ps[1].leftWrist.y) >> ELSE <<>>)
    \o (IF WristPainted(lw.right, ps[1].rightWrist)
        THEN << PaintAt("rightWrist", 1, ps[1].rightWrist.x, ps[1].rightWrist.y) >> ELSE <<>>)

\* lastLeft and lastRight after draw() (only sketch.js has them).
WristsSaved(vr, ps, lw) ==
    IF vr = "sketch" /\ Len(ps) > 0
    THEN [left  |-> IF WristPainted(lw.left, ps[1].leftWrist)
                    THEN << ps[1].leftWrist.x, ps[1].leftWrist.y >> ELSE lw.left,
          right |-> IF WristPainted(lw.right, ps[1].rightWrist)
                    THEN << ps[1].rightWrist.x, ps[1].rightWrist.y >> ELSE lw.right]
    ELSE lw

\* else if(lastMouse.x > 0 && lastMouse.y > 0) paint(lastMouse.x, lastMouse.y)
MousePaints(lm) ==
    IF lm[1] > 0 /\ lm[2] > 0 THEN << PaintAt("mouse", 0, lm[1], lm[2]) >> ELSE <<>>

\* Variation: draw() consults poses whether tracking is on or not.
FramePaintsUntracked(vr, trk, ps, lm, lw) ==
    IF Len(ps) > 0
    THEN IF vr = "sketch" THEN WristPaints(ps, lw) ELSE AllPosePaints(ps, 1)
    ELSE MousePaints(lm)

\* The calls of paint one draw() makes, in order: the limbs of the poses
\* when tracking is on and poses were detected, else the saved pointer
\* position.
FramePaints(vr, trk, ps, lm, lw) ==
    IF trk /\ Len(ps) > 0
    THEN IF vr = "sketch" THEN WristPaints(ps, lw) ELSE AllPosePaints(ps, 1)
    ELSE MousePaints(lm)

(***************************************************************************)
(* draw(): one frame.  The recolouring and the tests that select the calls *)
(* of paint are one step; the calls of paint then run one after the other  *)
(* (PaintBegin, DeformStep, Show), and lastMouse is reset when the paint   *)
(* of the pointer position has returned (FrameReturn).                     *)
(***************************************************************************)
\* Buffers getFloatTimeDomainData() fills: every sequence of 1 .. MaxBuf
\* samples out of Samples.
Samples == { 0, 1, 32, -32 }
RECURSIVE Buffers(_)
Buffers(n) ==
    IF n = 0 THEN { <<>> }
    ELSE LET shorter == Buffers(n - 1)
         IN  shorter \cup { Append(s, k) : s \in { t \in shorter : Len(t) = n - 1 },
                                           k \in Samples }

\* brushColor after the first part of draw(): the palette loop, or the
\* note of the frequency f that acf2plus returned.
DrawColor(vr, m, col, lis, f) ==
    IF OverPalette(vr, m) THEN PaletteColor(vr, m, col)
    ELSE IF PitchApplies(vr, m, lis) /\ Truthy(f) THEN NoteColor(vr, f)
    ELSE col

Idle == pc = "idle" /\ todo = <<>>

Draw ==
    /\ Idle
    /\ ticks < MaxTicks
    /\ ticks' = ticks + 1
    /\ \E buf \in (IF PitchApplies(variant, mouse, listening)
                   THEN Buffers(MaxBuf) \ { <<>> } ELSE { <<>> }) :
          LET f == acf2plus(buf)
          IN  /\ brushColor' = DrawColor(variant, mouse, brushColor, listening, f)
              /\ frame' = [tick |-> ticks + 1, tracking |-> tracking, poses |-> poses,
                            pitch |-> PitchApplies(variant, mouse, listening),
                            buffer |-> buf, frequency |-> f, recolors |-> 0]
    /\ todo' = FramePaints(variant, tracking, poses, lastMouse, lastWrist)
    /\ lastWrist' = IF tracking THEN WristsSaved(variant, poses, lastWrist) ELSE lastWrist
    /\ UNCHANGED <<variant, rng, brushRadius, arrays, b, layers, total, pc,
                   round, rounds, layer, canvas, passed, calls, last, resets>>
    /\ UNCHANGED <<mouse, lastMouse, tracking, listening, poseNet, audioAnalyser,
                   captures, requests, poses, events, saves, created,
                   pressed, counter>>

\* The point paint is called with, as a vertex.
Anchor(e) == << e.p[1] * Unit, e.p[2] * Unit >>

\* The next call of paint of the running draw().
FramePaint ==
    /\ todo # <<>>
    /\ Head(todo).src # "counter"
    /\ ~ Head(todo).painted
    /\ PaintBegin(Anchor(Head(todo)))
    /\ UNCHANGED session

FrameDeform == todo # <<>> /\ DeformStep /\ UNCHANGED session

\* The end of paint: the bundle is displayed and the call returns.
FrameShow ==
    /\ todo # <<>>
    /\ Show
    /\ todo' = [todo EXCEPT ![1].painted = TRUE]
    /\ UNCHANGED <<mouse, lastMouse, lastWrist, tracking, listening, poseNet,
                   audioAnalyser, captures, requests, poses, ticks, events,
                   saves, frame, created, pressed, counter>>

paintState == <<variant, rng, brushColor, brushRadius, arrays, b, layers, total,
                pc, round, rounds, layer, canvas, passed, calls, last, resets>>

\* Variation: draw() does not reset lastMouse after painting it.
FrameReturnKeep ==
    /\ pc = "idle"
    /\ todo # <<>>
    /\ Head(todo).painted
    /\ todo' = Tail(todo)
    /\ saves' = IF Head(todo).src = "mouse" THEN 0 ELSE saves
    /\ UNCHANGED paintState
    /\ UNCHANGED <<mouse, lastMouse, lastWrist, tracking, listening, poseNet,
                   audioAnalyser, captures, requests, poses, ticks, events, frame,
                   created, pressed, counter>>

\* draw() after a call of paint has returned: after the paint of the
\* pointer position, lastMouse is set to (0, 0).
FrameReturn ==
    /\ pc = "idle"
    /\ todo # <<>>
    /\ Head(todo).painted
    /\ todo' = Tail(todo)
    /\ lastMouse' = IF Head(todo).src = "mouse" THEN <<0, 0>> ELSE lastMouse
    /\ saves' = IF Head(todo).src = "mouse" THEN 0 ELSE saves
    /\ UNCHANGED paintState
    /\ UNCHANGED <<mouse, lastWrist, tracking, listening, poseNet, audioAnalyser,
                   captures, requests, poses, ticks, events, frame, created,
                   pressed, counter>>

(***************************************************************************)
(* Events between two frames.                                              *)
(***************************************************************************)
\* Positions of the pointer: inside the canvas, left of it, on its left
\* edge, right of it, on a swatch, in the palette row left of the swatches
\* and in the palette row past the last colour.
MousePositions(vr) ==
    { <<100, 100>>, <<300, 200>>, <<-5, 100>>, <<0, 100>>, <<Width(vr) + 10, 100>>,
      <<3 * Spacing(vr) + 10, InnerHeight - 10>>, <<0, InnerHeight - 10>>,
      <<NumColors(vr) * Spacing(vr) + 10, InnerHeight - 10>> }

\* The pointer moves; p5.js sets mouseX and mouseY.
MouseMoved(m) ==
    /\ Idle
    /\ events < MaxEvents
    /\ events' = events + 1
    /\ mouse' = m
    /\ UNCHANGED paintState
    /\ UNCHANGED <<lastMouse, lastWrist, tracking, listening, poseNet, audioAnalyser,
                   captures, requests, poses, todo, ticks, saves, frame,
                   created, pressed, counter>>

\* mouseClicked(), or mouseDragged() with the button down, at m: saveMouse().
MouseClicked(m) ==
    /\ Idle
    /\ events < MaxEvents
    /\ events' = events + 1
    /\ mouse' = m
    /\ lastMouse' = saveMouse(variant, m, lastMouse)
    /\ saves' = IF m[1] <= Width(variant) /\ m[2] <= Height(variant)
                THEN saves + 1 ELSE saves
    /\ UNCHANGED paintState
    /\ UNCHANGED <<lastWrist, tracking, listening, poseNet, audioAnalyser,
                   captures, requests, poses, todo, ticks, frame, created,
                   pressed, counter>>

\* Variation: tracking flips whether the pose model exists or not.
TrackingToggleBlind ==
    /\ Idle
    /\ variant # "sketch"
    /\ events < MaxEvents
    /\ events' = events + 1
    /\ captures' = IF poseNet THEN captures ELSE captures + 1
    /\ tracking' = ~ tracking
    /\ UNCHANGED paintState
    /\ UNCHANGED <<mouse, lastMouse, lastWrist, listening, poseNet, audioAnalyser,
                   requests, poses, todo, ticks, saves, frame, created,
                   pressed, counter>>

\* trackingToggle(), from the button: the first calls start the capture,
\* whose callback makes the pose model; with the model, tracking flips.
TrackingToggle ==
    /\ Idle
    /\ variant # "sketch"
    /\ events < MaxEvents
    /\ events' = events + 1
    /\ captures' = IF poseNet THEN captures ELSE captures + 1
    /\ tracking' = IF poseNet THEN ~ tracking ELSE tracking
    /\ UNCHANGED paintState
    /\ UNCHANGED <<mouse, lastMouse, lastWrist, listening, poseNet, audioAnalyser,
                   requests, poses, todo, ticks, saves, frame, created,
                   pressed, counter>>

\* The callback of createCapture(): poseNet is made, trackingToggle() runs.
CaptureReady ==
    /\ Idle
    /\ captures > 0
    /\ captures' = captures - 1
    /\ poseNet' = TRUE
    /\ created' = created + 1
    /\ tracking' = ~ tracking
    /\ UNCHANGED paintState
    /\ UNCHANGED <<mouse, lastMouse, lastWrist, listening, audioAnalyser,
                   requests, poses, todo, ticks, events, saves, frame,
                   pressed, counter>>

\* poseNet.on('pose', ...): poses = r.
PoseCallback(r) ==
    /\ Idle
    /\ poseNet
    /\ events < MaxEvents
    /\ events' = events + 1
    /\ poses' = r
    /\ UNCHANGED paintState
    /\ UNCHANGED <<mouse, lastMouse, lastWrist, tracking, listening, poseNet,
                   audioAnalyser, captures, requests, todo, ticks, saves, frame,
                   created, pressed, counter>>

\* listeningToggle(), from the button.
ListeningToggle ==
    /\ Idle
    /\ variant # "sketch"
    /\ events < MaxEvents
    /\ events' = events + 1
    /\ requests' = IF audioAnalyser THEN requests ELSE requests + 1
    /\ listening' = IF audioAnalyser THEN ~ listening ELSE listening
    /\ UNCHANGED paintState
    /\ UNCHANGED <<mouse, lastMouse, lastWrist, tracking, poseNet, audioAnalyser,
                   captures, poses, todo, ticks, saves, frame, created,
                   pressed, counter>>

\* The success callback of getUserMedia(): the analyser is made,
\* listeningToggle() runs.
StreamGranted ==
    /\ Idle
    /\ requests > 0
    /\ requests' = requests - 1
    /\ audioAnalyser' = TRUE
    /\ listening' = ~ listening
    /\ UNCHANGED paintState
    /\ UNCHANGED <<mouse, lastMouse, lastWrist, tracking, poseNet, captures,
                   poses, todo, ticks, events, saves, frame, created,
                   pressed, counter>>

\* The error callback of getUserMedia().
StreamDenied ==
    /\ Idle
    /\ requests > 0
    /\ requests' = requests - 1
    /\ UNCHANGED paintState
    /\ UNCHANGED <<mouse, lastMouse, lastWrist, tracking, listening, poseNet,
                   audioAnalyser, captures, poses, todo, ticks, events, saves, frame,
                   created, pressed, counter>>

\* canvasReset(), from the button.
ResetPressed ==
    /\ Idle
    /\ resets < MaxResets
    /\ CanvasReset
    /\ resets' = resets + 1
    /\ UNCHANGED session

\* constrain(n, low, high) of p5.js.
constrain(n, low, high) == IF n < low THEN low ELSE IF n > high THEN high ELSE n

\* Variation: the new radius is not constrained.
changeBrushSizeFree(i, r) == (i * 8) + r

\* changeBrushSize(i): brushRadius afterwards, r being brushRadius before.
changeBrushSize(i, r) == constrain((i * 8) + r, 8, 64)

\* A press of a size button: changeBrushSize(i); the history keeps the
\* last two presses and the radius each of them found.
SizePressed(i) ==
    /\ Idle
    /\ variant # "sketch"
    /\ brushRadius' = changeBrushSize(i, brushRadius)
    /\ pressed' = (IF pressed = <<>> THEN <<>> ELSE << pressed[Len(pressed)] >>)
                      \o << [i |-> i, from |-> brushRadius] >>
    /\ UNCHANGED <<variant, rng, brushColor, arrays, b, layers, total, pc, round,
                   rounds, layer, canvas, passed, calls, last, resets>>
    /\ UNCHANGED <<mouse, lastMouse, lastWrist, tracking, listening, poseNet,
                   audioAnalyser, captures, requests, poses, todo, ticks, events,
                   saves, frame, created, counter>>

\* increaseBrushSize() and decreaseBrushSize(), from the buttons.
IncreaseBrushSize == SizePressed(1)
DecreaseBrushSize == SizePressed(-1)

\* The size buttons (sketch.js has none).
NextSize ==
    \/ IncreaseBrushSize
    \/ DecreaseBrushSize

SpecSize == Init /\ [][NextSize]_vars

\* Pointer and palette: the pointer moves and clicks, the canvas is reset.
NextPointer ==
    \/ \E m \in MousePositions(variant) : MouseMoved(m)
    \/ \E m \in MousePositions(variant) : MouseClicked(m)
    \/ ResetPressed
    \/ Draw
    \/ FramePaint
    \/ FrameDeform
    \/ FrameShow
    \/ FrameReturn

\* The session is followed from the first generator seeds.
InitSession == Init /\ rng \in { step(seed) : seed \in 0..(MaxSeeds - 1) }

SpecPointer == InitSession /\ [][NextPointer]_vars

\* Pose tracking: the tracking button, the capture, the pose model.
NextPose ==
    \/ TrackingToggle
    \/ CaptureReady
    \/ \E r \in PoseResults : PoseCallback(r)
    \/ Draw
    \/ FramePaint
    \/ FrameDeform
    \/ FrameShow
    \/ FrameReturn

SpecPose == InitSession /\ [][NextPose]_vars

\* Pitch detection: the listening button, the microphone, the pointer.
NextPitch ==
    \/ ListeningToggle
    \/ StreamGranted
    \/ StreamDenied
    \/ \E m \in MousePositions(variant) : MouseMoved(m)
    \/ Draw

SpecPitch == InitSession /\ [][NextPitch]_vars

\* The two buttons: tracking and listening, their permissions and callbacks.
NextButtons ==
    \/ TrackingToggle
    \/ CaptureReady
    \/ ListeningToggle
    \/ StreamGranted
    \/ StreamDenied
    \/ Draw

SpecButtons == InitSession /\ [][NextButtons]_vars

(***************************************************************************)
(* The second sketch of part_001: poses choose the colour.  draw() runs    *)
(* through the poses; for each pose it counts, may draw a new colour, and  *)
(* paints the limbs of the pose in the colour of that moment.              *)
(***************************************************************************)
\* drawFrameRate
DrawFrameRate == 30

\* A pose none of whose limbs is found.
PoseD ==
    [leftWrist |-> Limb(210, 160, 30), rightWrist |-> Limb(410, 160, 45),
     leftAnkle |-> Limb(255, 405, 60), rightAnkle |-> Limb(455, 405, 5)]
CounterResults == { <<>>, <<PoseB>>, <<PoseD, PoseD, PoseD>> }

\* The steps of draw() for the poses from i on: the counter step of each
\* pose, then its calls of paint.
RECURSIVE CounterTodo(_, _)
CounterTodo(ps, i) ==
    IF i > Len(ps) THEN <<>>
    ELSE << [p |-> <<0, 0>>, src |-> "counter", pose |-> i, painted |-> FALSE] >>
         \o PosePaints(ps, i) \o CounterTodo(ps, i + 1)

\* The palette loop of the second sketch: the swatches under the pointer.
CounterSwatches(vr, m) ==
    { i \in 0..(NumColors(vr) - 1) :
        /\ m[1] > i * Spacing(vr) /\ m[1] < i * Spacing(vr) + Spacing(vr)
        /\ m[2] > Height(vr) /\ m[2] < InnerHeight }

\* draw() of the second sketch: with poses, the steps of the loop over the
\* poses; without, the palette loop and the saved pointer position.
DrawCounter ==
    /\ Idle
    /\ ticks < MaxTicks
    /\ ticks' = ticks + 1
    /\ frame' = [tick |-> ticks + 1, tracking |-> tracking, poses |-> poses,
                  pitch |-> FALSE, buffer |-> <<>>, frequency |-> NoSignal,
                  recolors |-> 0]
    /\ IF Len(poses) > 0
       THEN /\ todo' = CounterTodo(poses, 1)
            /\ UNCHANGED brushColor
       ELSE /\ todo' = MousePaints(lastMouse)
            /\ brushColor' =
                  LET hit == CounterSwatches(variant, mouse)
                  IN  IF hit = {} THEN brushColor ELSE CHOOSE i \in hit : TRUE
    /\ UNCHANGED <<variant, rng, brushRadius, arrays, b, layers, total, pc,
                   round, rounds, layer, canvas, passed, calls, last, resets>>
    /\ UNCHANGED <<mouse, lastMouse, lastWrist, tracking, listening, poseNet,
                   audioAnalyser, captures, requests, poses, events, saves,
                   created, pressed, counter>>

\* counter > random(1, drawFrameRate), c being the incremented counter.
CounterExceeds(c, f) == c * Unit > random(f, 1, DrawFrameRate)

\* The counter step of a pose: counter++, and a new colour and counter = 1
\* when the counter exceeds the random limit.
FrameCounter ==
    /\ pc = "idle"
    /\ todo # <<>>
    /\ Head(todo).src = "counter"
    /\ todo' = Tail(todo)
    /\ IF CounterExceeds(counter + 1, frac(rng))
       THEN /\ brushColor' = randomColor(frac(step(rng)), variant)
            /\ counter' = 1
            /\ rng' = Advance(rng, 2)
            /\ frame' = [frame EXCEPT !.recolors = @ + 1]
       ELSE /\ counter' = counter + 1
            /\ rng' = step(rng)
            /\ UNCHANGED <<brushColor, frame>>
    /\ UNCHANGED <<variant, brushRadius, arrays, b, layers, total, pc, round,
                   rounds, layer, canvas, passed, calls, last, resets>>
    /\ UNCHANGED <<mouse, lastMouse, lastWrist, tracking, listening, poseNet,
                   audioAnalyser, captures, requests, poses, ticks, events,
                   saves, created, pressed>>

\* canvasClean(), from the button: the counter starts again.
CleanPressed ==
    /\ Idle
    /\ resets < MaxResets
    /\ CanvasReset
    /\ resets' = resets + 1
    /\ counter' = 0
    /\ UNCHANGED <<mouse, lastMouse, lastWrist, tracking, listening, poseNet,
                   audioAnalyser, captures, requests, poses, todo, ticks, events,
                   saves, frame, created, pressed>>

NextCounter ==
    \/ \E r \in CounterResults : PoseCallback(r)
    \/ CleanPressed
    \/ DrawCounter
    \/ FrameCounter
    \/ FramePaint
    \/ FrameDeform
    \/ FrameShow
    \/ FrameReturn

SpecCounter == Setup("part001b") /\ [][NextCounter]_vars

(***************************************************************************)
(* Properties.                                                             *)
(***************************************************************************)
Pow2(k) == 2 ^ k

\* C1: a brush built on n >= 1 vertices holds exactly n * 2^k vertices after
\* k calls of deform(); every call adds as many vertices as the brush held
\* before it, also when it held a single one.
C1_VertexGrowth ==
    \A ref \in DOMAIN arrays :
        Len(arrays[ref]) = Len(passed[ref]) * Pow2(calls[ref])

\* A single-vertex brush that was deformed twice.
C1_Witness ==
    \E ref \in DOMAIN arrays : Len(passed[ref]) = 1 /\ calls[ref] = 2

\* C2: one deform() turns [v0, ..., v(n-1)] into
\* [v0, m(n-1), ..., m0, v1, ..., v(n-1)], m(i) being the i-th vertex pushed
\* on newVertices: v0 stays first, the new vertices take the indices 1..n
\* in reverse order of generation, the old ones follow in their old order.
C2_SpliceOrder ==
    last # None =>
        LET n    == Len(last.pre)
            post == arrays[last.ref]
        IN  /\ Len(post) = 2 * n
            /\ Len(last.newVertices) = n
            /\ post[1] = last.pre[1]
            /\ \A i \in 0..(n - 1) : post[1 + (n - i)] = last.newVertices[i + 1]
            /\ \A i \in 1..(n - 1) : post[n + i + 1] = last.pre[i + 1]

\* A deform() of a brush of three vertices, whose new vertices differ.
C2_Witness ==
    /\ last # None
    /\ Len(last.pre) = 3
    /\ last.newVertices[1] # last.newVertices[3]

\* C3: the i-th new vertex (0 <= i < n) is the midpoint of the vertices i
\* and (i + 1) mod n of the array as it was before the call, moved by an
\* offset in [-brushRadius, brushRadius] that is drawn by one call of
\* random() for x and by another for y; the pair (v(n-1), v0) gives exactly
\* one vertex, and a single vertex gives the vertex itself plus the offset.
C3_Midpoints ==
    last # None =>
        LET n == Len(last.pre)
            r == last.radius
            dx(i) == random(last.draws[2 * i + 1], -r, r)
            dy(i) == random(last.draws[2 * i + 2], -r, r)
        IN  /\ Len(last.newVertices) = n
            /\ Len(last.draws) = 2 * n
            /\ \A i \in 0..(n - 1) :
                  LET p == last.pre[i + 1]
                      q == last.pre[((i + 1) % n) + 1]
                      m == last.newVertices[i + 1]
                  IN  /\ 2 * (m[1] - dx(i)) = p[1] + q[1]
                      /\ 2 * (m[2] - dy(i)) = p[2] + q[2]
                      /\ - r * Unit <= dx(i) /\ dx(i) <= r * Unit
                      /\ - r * Unit <= dy(i) /\ dy(i) <= r * Unit

\* The second deform() of a brush built on two vertices: four vertices,
\* no longer whole numbers, with distinct first and last vertex.
C3_Witness ==
    /\ last # None
    /\ Len(last.pre) = 4
    /\ last.pre[1] # last.pre[4]
    /\ calls[last.ref] = 2

\* The vertex before and the vertex after index j of the cyclic sequence s.
Prev(s, j) == s[IF j = 1 THEN Len(s) ELSE j - 1]
Succ(s, j) == s[IF j = Len(s) THEN 1 ELSE j + 1]

\* C4 as stated: after one deform() every new vertex lies, in the cyclic
\* vertex sequence, between the two vertices it was computed from, for
\* every adjacent pair and for the pair (v(n-1), v0).
C4_BetweenOwnPair ==
    last # None =>
        LET n    == Len(last.pre)
            post == arrays[last.ref]
        IN  \A i \in 0..(n - 1) :
                \E j \in 1..Len(post) :
                    /\ post[j] = last.newVertices[i + 1]
                    /\ Prev(post, j) = last.pre[i + 1]
                    /\ Succ(post, j) = last.pre[((i + 1) % n) + 1]

\* C4, amended: after one deform() the n new vertices lie as one run right
\* after v0 (between v0 and v1 when n >= 2), whatever pair each was
\* computed from; for n = 1 the one new vertex follows v0 and so lies
\* between the vertices of its own pair (v0, v0).
C4_OneRunAfterFirst ==
    last # None =>
        LET n    == Len(last.pre)
            post == arrays[last.ref]
        IN  /\ post[1] = last.pre[1]
            /\ \A i \in 0..(n - 1) :
                  \E j \in 2..(n + 1) : post[j] = last.newVertices[i + 1]
            /\ n >= 2 => post[n + 2] = last.pre[2]
            /\ n = 1 => /\ Prev(post, 2) = last.pre[1]
                        /\ Succ(post, 2) = last.pre[1]

\* A deform() of at least three vertices: the vertex made from (v1, v2) is
\* in the run after v0 and next to neither v1 nor v2.
C4_Witness ==
    /\ last # None
    /\ Len(last.pre) >= 3
    /\ arrays[last.ref][Len(last.pre)] = last.newVertices[2]
    /\ \A j \in 1..Len(arrays[last.ref]) :
          arrays[last.ref][j] = last.newVertices[2] => j = Len(last.pre)

\* C5 as stated: the brush keeps its vertices by value, so the array the
\* caller handed to the constructor is never changed by deform().
C5_CallerArrayUnchanged ==
    \A ref \in DOMAIN arrays : arrays[ref] = passed[ref]

\* C8: the colour and the alpha of a brush are those set by its
\* constructor: no deform(), no display() and no change of the global
\* brushColor changes them.
C8_ColorFixed ==
    [][(b # None /\ b' # None) => b'.color = b.color]_vars

\* A brush that was deformed and displayed after the global brushColor
\* changed to another colour than the brush's.
C8_Witness ==
    /\ b # None
    /\ b.color.name # brushColor
    /\ last # None
    /\ display(b) \in canvas

\* C6: within one bundle no two layers, and no layer and the seed brush,
\* share a vertex array: the deform() of one layer leaves the vertices of
\* every other layer and of the seed brush as they were, in every round.
C6_NoSharedVertices ==
    [][pc = "deform" =>
          /\ \A i, j \in 1..Len(layers) :
                i # j => layers[i].vertices # layers[j].vertices
          /\ \A j \in 1..Len(layers) :
                /\ layers[j].vertices # b.vertices
                /\ j # layer + 1 =>
                      arrays'[layers[j].vertices] = arrays[layers[j].vertices]
          /\ arrays'[b.vertices] = arrays[b.vertices]]_vars

\* Two layers of one bundle after two full rounds, with different vertices,
\* the seed brush still holding the single point it was built on.
C6_Witness ==
    /\ pc = "deform"
    /\ round = 2
    /\ layer = 0
    /\ arrays[layers[1].vertices] # arrays[layers[2].vertices]
    /\ Len(arrays[b.vertices]) = 1

\* C7: when the bundle is shown, every layer has received the same number
\* of deform() calls, the number of rounds of this paint, and so holds
\* 2^rounds vertices: 5 rounds in the sketches whose paint loops 5 times,
\* the drawn number of rounds (at most 8) in the Strokes variant.
C7_EqualRounds ==
    pc = "show" =>
        /\ \A j \in 1..Len(layers) :
              /\ calls[layers[j].vertices] = rounds
              /\ Len(arrays[layers[j].vertices]) = Pow2(rounds)
        /\ variant # "part001" => rounds = 5
        /\ variant = "part001" => rounds \in 0..8

\* A bundle of the random-rounds variant about to be shown after at least
\* three rounds.
C7_Witness ==
    /\ pc = "show"
    /\ variant = "part001"
    /\ rounds >= 3
    /\ Len(layers) >= 8

\* C9 as stated: all layers of a bundle have the same fill, alpha included:
\* the brush colour current at paint, with one alpha in 1..2.
C9_SameFill ==
    \A i, j \in 1..Len(layers) :
        /\ layers[i].color = layers[j].color
        /\ layers[i].color.name = brushColor
        /\ layers[i].color.alpha \in 1..2

\* C9, amended: all layers of a bundle have the colour that is current at
\* paint and an alpha in 1..2; the alpha is 2 for every layer in the
\* sketches that set it to 2, and is drawn for each layer on its own in
\* the Brush variant (round(random(1, 2))).
C9_SameColorOwnAlpha ==
    \A i \in 1..Len(layers) :
        /\ layers[i].color.name = brushColor
        /\ layers[i].color.alpha \in 1..2
        /\ variant # "part001" => layers[i].color.alpha = 2

\* A bundle with a layer of alpha 1 and a layer of alpha 2.
C9_Witness ==
    \E i, j \in 1..Len(layers) :
        layers[i].color.alpha = 1 /\ layers[j].color.alpha = 2

\* C10: the number of layers a bundle is built with lies in the range of
\* its sketch, ends included: 10..30, 8..32, or the fixed 25.
C10_LayerCount ==
    layers # <<>> =>
        /\ variant = "sketch" => Len(layers) = 25
        /\ variant = "part000" => Len(layers) \in 10..30
        /\ variant = "part001" => Len(layers) \in 8..32

\* A bundle whose drawn total is not a whole number: the loop builds one
\* layer more than the whole part.
C10_Witness ==
    /\ layers # <<>>
    /\ variant = "part000"
    /\ total % Unit # 0
    /\ Len(layers) * Unit > total

\* C11 as stated: the total of a bundle is a whole number and is the number
\* of layers held in layers, from construction to display, so the loops
\* over i < total visit exactly the layers that exist.
C11_TotalIsLayerCount ==
    layers # <<>> =>
        /\ total % Unit = 0
        /\ total = Len(layers) * Unit
        /\ LoopCount(total, 0) = Len(layers)

\* C12 as stated: in the random-rounds variant every paint applies between
\* 1 and 8 rounds, so no bundle is shown that received no round.
C12_RoundsOneToEight ==
    (variant = "part001" /\ pc \in {"deform", "show"}) => rounds \in 1..8

\* C13: no step of paint changes brushColor, lastMouse, brushRadius,
\* tracking, listening or poses, and a step of paint only adds fills to
\* what the canvas holds; no step at all, frame ticks included, removes a
\* fill from the canvas unless it is a canvas reset.
C13_PaintOnlyAdds ==
    [][/\ (pc # "idle" \/ pc' # "idle") =>
             /\ <<brushColor, lastMouse, brushRadius, tracking, listening, poses>>'
                   = <<brushColor, lastMouse, brushRadius, tracking, listening, poses>>
             /\ canvas \subseteq canvas'
       /\ resets' = resets => canvas \subseteq canvas']_vars

\* A paint has put a second colour on a canvas that still holds the fills
\* of an earlier paint, in a frame that painted the pointer position.
C13_Witness ==
    /\ \E f, g \in canvas : f.name # g.name
    /\ todo # <<>>
    /\ Head(todo).painted
    /\ Head(todo).src = "mouse"
    /\ ticks = 2

\* C14: pointer events are not queued.  Whatever number of positions was
\* saved since the last pointer paint, a frame paints at most one pointer
\* blob, at the position lastMouse holds (the last one saved), and only if
\* a position was saved since the last pointer paint; once that paint has
\* returned, lastMouse is (0, 0) until the next position is saved.
C14_OnePointerBlob ==
    /\ Cardinality({ i \in DOMAIN todo : todo[i].src = "mouse" }) <= 1
    /\ \A i \in DOMAIN todo :
          todo[i].src = "mouse" =>
              /\ Len(todo) = 1
              /\ todo[i].p = lastMouse
              /\ saves >= 1
    /\ saves = 0 => lastMouse = <<0, 0>>

\* Two positions were saved before the frame; the paint of the second one
\* has returned.
C14_Witness ==
    /\ todo # <<>>
    /\ Head(todo).src = "mouse"
    /\ Head(todo).painted
    /\ saves = 2
    /\ Head(todo).p = <<300, 200>>
    /\ canvas # {}

\* C15 as stated: a pointer event at a position outside the canvas, a
\* negative coordinate included, leaves lastMouse as it was; and every
\* paint of the pointer position is at a point inside the canvas.
C15_OutsideNotSaved ==
    [][/\ (/\ events' = events + 1
           /\ \/ mouse'[1] < 0 \/ mouse'[2] < 0
              \/ mouse'[1] > Width(variant) \/ mouse'[2] > Height(variant))
          => lastMouse' = lastMouse
       /\ \A i \in DOMAIN todo :
             todo[i].src = "mouse" =>
                 /\ todo[i].p[1] \in 0..Width(variant)
                 /\ todo[i].p[2] \in 0..Height(variant)]_vars

\* C18: a frame in which the pointer is on no swatch of the palette, and
\* in which draw() does not call the pitch detector, leaves brushColor as
\* it was.  Swatch i is the square from i * spacing to (i + 1) * spacing
\* in the palette row.
C18_OffPaletteNoChange ==
    [][(/\ ticks' = ticks + 1
        /\ ~ \E i \in 0..(NumColors(variant) - 1) :
                /\ mouse[1] >= i * Spacing(variant)
                /\ mouse[1] <= (i + 1) * Spacing(variant)
                /\ mouse[2] >= (IF variant = "sketch"
                                THEN InnerHeight - Spacing(variant)
                                ELSE Height(variant))
                /\ mouse[2] <= InnerHeight
        /\ ~ (listening /\ mouse[2] < Height(variant)))
       => brushColor' = brushColor]_vars

\* A frame has run while the pointer was in the palette row, past the last
\* swatch; no other event has happened than the move to that position.
C18_Witness ==
    /\ ticks >= 1
    /\ events = 1
    /\ mouse = << NumColors(variant) * Spacing(variant) + 10, InnerHeight - 10 >>

\* C16: a frame that runs while tracking is off paints at no position of a
\* pose, whatever poses holds: the only paint it can make is the one of
\* the pointer position.
C16_OffNoPosePaint ==
    (frame.tick >= 1 /\ ~ frame.tracking) =>
        \A i \in DOMAIN todo : todo[i].src = "mouse"

\* The pose model exists and has delivered poses, tracking was switched
\* off again, and a frame has run in that state.
C16_Witness ==
    /\ poseNet
    /\ ~ frame.tracking
    /\ frame.poses # <<>>
    /\ frame.tick >= 1
    /\ todo = <<>>

\* C17: every paint of a frame at a limb is at the position of a limb of
\* the poses of that frame whose body part is enabled and whose
\* confidence is above 0.60: no limb with a confidence of 0.60 or less is
\* painted.
C17_ConfidentLimbsOnly ==
    \A i \in DOMAIN todo :
        todo[i].src # "mouse" =>
            LET e    == todo[i]
                pose == frame.poses[e.pose]
                limb == CASE e.src = "leftWrist" -> pose.leftWrist
                          [] e.src = "rightWrist" -> pose.rightWrist
                          [] e.src = "leftAnkle" -> pose.leftAnkle
                          [] e.src = "rightAnkle" -> pose.rightAnkle
                on   == CASE e.src = "leftWrist" -> trackingBodyParts.leftWrist
                          [] e.src = "rightWrist" -> trackingBodyParts.rightWrist
                          [] e.src = "leftAnkle" -> trackingBodyParts.leftAnkle
                          [] e.src = "rightAnkle" -> trackingBodyParts.rightAngle
            IN  /\ on \/ variant = "sketch"
                /\ limb.confidence > 60
                /\ e.p = << limb.x, limb.y >>

\* A frame on a pose whose right wrist has confidence 0.60 and whose right
\* ankle has less: the left wrist was painted, the left ankle is being
\* painted, and no other paint is left.
C17_Witness ==
    /\ frame.poses = << PoseA >>
    /\ Len(todo) = 1
    /\ Head(todo).src = "leftAnkle"
    /\ Head(todo).painted
    /\ frame.poses[1].rightWrist.confidence = 60

\* C19: for a buffer of one or more samples that are all zero, and for one
\* whose rms is below 0.01 (sum of squares / length < 1 / 10000), acf2plus
\* returns false, and the frame that called it leaves brushColor as it was.
C19_SilenceNoSignal ==
    [][(/\ frame'.tick = ticks + 1
        /\ frame'.pitch
        /\ LET buf == frame'.buffer
               sq  == SeqSum(<<>> \o [i \in 1..Len(buf) |-> buf[i] * buf[i]])
           IN  /\ Len(buf) >= 1
               /\ sq = 0 \/ 10000 * sq < SampleScale * SampleScale * Len(buf))
       => /\ frame'.frequency = [kind |-> "false", value |-> 0]
          /\ acf2plus(frame'.buffer) = frame'.frequency
          /\ brushColor' = brushColor]_vars

\* A frame has called acf2plus on a buffer of three samples, one of them
\* not zero, whose rms is below 0.01.
C19_Witness ==
    /\ frame.pitch
    /\ Len(frame.buffer) = 3
    /\ \E i \in 1..3 : frame.buffer[i] # 0
    /\ frame.frequency.kind = "false"
    /\ listening

\* C20 as stated: when the peak search is degenerate (the autocorrelation
\* of the trimmed buffer decreases up to its end, or no value is above the
\* initial maximum, or the peak is at the first or at the last lag),
\* acf2plus returns a falsy value and the frame leaves brushColor as it was.
C20_DegenerateNoPitch ==
    [][(/\ frame'.tick = ticks + 1
        /\ frame'.pitch
        /\ ~ TooQuiet(frame'.buffer)
        /\ LET c   == Autocorrelation(Trim(frame'.buffer))
               d   == FirstDip(c, 0)
               pos == MaxPos(c, d)
           IN  \/ d >= Len(c) - 1
               \/ pos = -1
               \/ pos = 0
               \/ pos = Len(c) - 1)
       => /\ ~ Truthy(frame'.frequency)
          /\ brushColor' = brushColor]_vars

\* C21 as stated: the trimming of acf2plus removes the near-zero samples
\* (|sample| < 0.2) at both ends and keeps everything in between: the
\* trimmed buffer runs from the first sample with |sample| >= 0.2 to the
\* last such sample.
C21_TrimKeepsLoudSpan ==
    (frame.pitch /\ ~ TooQuiet(frame.buffer)) =>
        LET buf  == frame.buffer
            loud == { i \in 1..Len(buf) : 5 * Abs(buf[i]) >= SampleScale }
        IN  Trim(buf) = IF loud = {} THEN <<>> ELSE SubSeq(buf, Min(loud), Max(loud))

\* C22 as stated: for every frequency acf2plus returns as a detected pitch
\* (a truthy value), the note (round(12 * log2(frequency / 440)) + 69) mod
\* 12 is an integer in 0..11, and the colour draw() takes for it is an
\* entry of the palette.
C22_NoteIsPitchClass ==
    (frame.pitch /\ Truthy(frame.frequency)) =>
        /\ Note(frame.frequency).kind = "number"
        /\ Note(frame.frequency).value \in 0..11
        /\ NoteColor(variant, frame.frequency) \in 0..(NumColors(variant) - 1)

\* C28 as stated: after setup, in every reachable state brushColor is an
\* entry of the palette colors, whatever canvas resets, palette hovers,
\* pitch-detection frames and random recolourings have run.
C28_ColorInPalette == brushColor \in 0..(NumColors(variant) - 1)

\* C23 as stated: a click or drag that saveMouse recorded at a position
\* inside the canvas (0 <= x <= width, 0 <= y <= height, the edges x = 0
\* and y = 0 included) is painted by the very next frame: the frame calls
\* paint at the recorded position.
C23_ClickPaintedNextFrame ==
    [][(/\ ticks' = ticks + 1
        /\ saves >= 1
        /\ lastMouse[1] \in 0..Width(variant)
        /\ lastMouse[2] \in 0..Height(variant))
       => \E i \in DOMAIN todo' : todo'[i].src = "mouse" /\ todo'[i].p = lastMouse]_vars

\* C24 as stated: the pose model is made at most once, however many times
\* the tracking button is pressed and in whatever order the presses and
\* the callbacks of the capture run.
C24_ModelCreatedOnce == created <= 1

\* C27: in every reachable state tracking implies that the pose model
\* exists, and listening implies that the audio context and the analyser
\* exist; a frame that read the analyser found it made.
C27_FlagsImplyModels ==
    /\ tracking => poseNet
    /\ listening => audioAnalyser
    /\ frame.pitch => audioAnalyser

\* Both buttons were pressed and both callbacks ran: tracking and listening
\* are on, and a frame has read the analyser.
C27_Witness ==
    /\ variant # "sketch"
    /\ tracking
    /\ listening
    /\ frame.pitch
    /\ frame.tick >= 1

\* C25 as stated: in sketch.js, a wrist of the first pose found with a
\* confidence above 0.60 is painted by a frame if and only if its position
\* differs from the position saved for that wrist, and the saved position
\* then becomes the position of the wrist.
C25_WristPaintedIffMoved ==
    [][(variant = "sketch" /\ ticks' = ticks + 1 /\ tracking /\ poses # <<>>)
       => LET ok(src, limb, saved, savedAfter) ==
                  LET pos     == << limb.x, limb.y >>
                      painted == \E i \in DOMAIN todo' :
                                     todo'[i].src = src /\ todo'[i].p = pos
                  IN  limb.confidence > TrackingConfidence =>
                          /\ painted <=> (pos # saved)
                          /\ painted => savedAfter = pos
          IN  /\ ok("leftWrist", poses[1].leftWrist, lastWrist.left, lastWrist'.left)
              /\ ok("rightWrist", poses[1].rightWrist, lastWrist.right, lastWrist'.right)]_vars

\* C29: after any sequence of presses of the size buttons brushRadius is a
\* multiple of 8 in 8..64; an increase at 64 and a decrease at 8 leave it
\* as it was; an increase followed by a decrease restores the radius that
\* the increase found, except when that radius was 64, and a decrease
\* followed by an increase restores it except when it was 8.
C29_RadiusSteps ==
    variant # "sketch" =>
        /\ brushRadius \in { 8 * k : k \in 1..8 }
        /\ pressed # <<>> =>
              LET p == pressed[Len(pressed)]
              IN  /\ (p.i = 1 /\ p.from = 64) => brushRadius = 64
                  /\ (p.i = -1 /\ p.from = 8) => brushRadius = 8
                  /\ (p.i = 1 /\ p.from < 64) => brushRadius = p.from + 8
                  /\ (p.i = -1 /\ p.from > 8) => brushRadius = p.from - 8
        /\ Len(pressed) = 2 =>
              /\ (pressed[1].i = 1 /\ pressed[2].i = -1) =>
                    (brushRadius = pressed[1].from <=> pressed[1].from # 64)
              /\ (pressed[1].i = -1 /\ pressed[2].i = 1) =>
                    (brushRadius = pressed[1].from <=> pressed[1].from # 8)

\* The radius was 64, an increase left it at 64, and the decrease that
\* followed made it 56.
C29_Witness ==
    /\ Len(pressed) = 2
    /\ pressed[1] = [i |-> 1, from |-> 64]
    /\ pressed[2] = [i |-> -1, from |-> 64]
    /\ brushRadius = 56

\* C30: for a layer built on a single anchor point (x0, y0), the radius r
\* being constant, after k calls of deform() every vertex of the layer is
\* within k * r of the anchor in each coordinate: |x - x0| <= k * r and
\* |y - y0| <= k * r.
C30_VerticesNearAnchor ==
    \A ref \in DOMAIN arrays :
        Len(passed[ref]) = 1 =>
            LET x0 == passed[ref][1][1]
                y0 == passed[ref][1][2]
                d  == calls[ref] * brushRadius * Unit
            IN  \A i \in DOMAIN arrays[ref] :
                    /\ Abs(arrays[ref][i][1] - x0) <= d
                    /\ Abs(arrays[ref][i][2] - y0) <= d

\* A layer on a single anchor after three or more calls of deform(), one
\* of whose vertices is farther than r from the anchor.
C30_Witness ==
    \E ref \in DOMAIN arrays :
        /\ Len(passed[ref]) = 1
        /\ calls[ref] >= 3
        /\ \E i \in DOMAIN arrays[ref] :
              Abs(arrays[ref][i][1] - passed[ref][1][1]) > brushRadius * Unit

\* C26 as stated: in the second sketch of part_001, while poses are
\* present the colour is drawn anew at most once within one frame, and
\* counter never exceeds drawFrameRate.
C26_RecolorOncePerFrame ==
    variant = "part001b" =>
        /\ frame.recolors <= 1
        /\ counter <= DrawFrameRate

====
